---- MODULE Spec2Model ----
(***************************************************************************)
(* Validation behaviour of the pydantic models declared in the repository. *)
(* Every schema is a class deriving from BaseModel; one validation call of *)
(* a schema is one action.  A call runs the declared before-hooks on the   *)
(* raw input, then every declared field (presence, type, constraints,      *)
(* field validators), and, only when no field failed, the declared         *)
(* after-hooks on the constructed instance.                                *)
(*                                                                         *)
(* Values are records [k, v]: k is the kind of the value ("absent" for a   *)
(* key the mapping does not hold, "none", "num", "str", "list", "map")     *)
(* and v its payload.  A string is a sequence of one-character strings.    *)
(* Numbers are integers; every bound of the declared constraints is an     *)
(* integer.                                                                *)
(***************************************************************************)
EXTENDS Integers, Sequences, FiniteSets, TLC

VARIABLES schema, raw, outcome, report, inst, ran, heap, carts, held

vars == <<schema, raw, outcome, report, inst, ran, heap, carts, held>>

(***************************************************************************)
(* Bounds of the input sets.                                               *)
(***************************************************************************)
MaxTitleLen == 8
MaxZipLen == 7
MaxItems == 2
MaxNameLen == 3
MaxPriceLen == 2
MaxCarts == 2
MaxAppend == 2

(***************************************************************************)
(* Values.                                                                 *)
(***************************************************************************)
Absent == [k |-> "absent", v |-> 0]
None == [k |-> "none", v |-> 0]
Num(n) == [k |-> "num", v |-> n]
Str(s) == [k |-> "str", v |-> s]
List(l) == [k |-> "list", v |-> l]
Map(m) == [k |-> "map", v |-> m]

NoInst == [k |-> "none", v |-> 0]

SeqsUpTo(S, n) == UNION {[1..m -> S] : m \in 0..n}

RECURSIVE Sum(_)
Sum(s) == IF s = <<>> THEN 0 ELSE Head(s) + Sum(Tail(s))

RECURSIVE Concat(_)
Concat(ss) == IF ss = <<>> THEN <<>> ELSE Head(ss) \o Concat(Tail(ss))

(***************************************************************************)
(* Errors of a report.  path is the location of the error, a sequence of   *)
(* field names and element indices (the empty path for a whole-model       *)
(* error); kind is the kind of error; detail names the violated constraint *)
(* or carries the message of the rejecting hook.                           *)
(***************************************************************************)
Err(path, kind, detail) == [path |-> path, kind |-> kind, detail |-> detail]

Prefix(name, errs) ==
  [i \in 1..Len(errs) |-> [errs[i] EXCEPT !.path = <<name>> \o @]]

\* A required field of a declared type: a missing key and a value of another
\* type are the field's only error, and end the field's processing.
Typed(name, val, kind) ==
  IF val.k = "absent" THEN <<Err(<<name>>, "MissingRequired", "")>>
  ELSE IF val.k # kind THEN <<Err(<<name>>, "TypeMismatch", kind)>>
  ELSE <<>>

Violation(name, holds, which) ==
  IF holds THEN <<>> ELSE <<Err(<<name>>, "ConstraintViolation", which)>>

Rejected(errs, hooks) ==
  [outcome |-> "Rejected", report |-> errs, inst |-> NoInst, ran |-> hooks]

Accepted(obj, hooks) ==
  [outcome |-> "Accepted", report |-> <<>>, inst |-> obj, ran |-> hooks]

(***************************************************************************)
(* Book: title of at least 3 characters, pages > 0, 10 <= price <= 1000.   *)
(***************************************************************************)
BookTitle(val) ==
  IF Typed("title", val, "str") # <<>> THEN Typed("title", val, "str")
  ELSE Violation("title", Len(val.v) >= 3, "min_length")

BookPages(val) ==
  IF Typed("pages", val, "num") # <<>> THEN Typed("pages", val, "num")
  ELSE Violation("pages", val.v > 0, "gt")

BookPrice(val) ==
  IF Typed("price", val, "num") # <<>> THEN Typed("price", val, "num")
  ELSE Violation("price", val.v >= 10, "ge") \o Violation("price", val.v <= 1000, "le")

BookFieldsFailFast(in) ==
  IF BookTitle(in.title) # <<>> THEN BookTitle(in.title)
  ELSE IF BookPages(in.pages) # <<>> THEN BookPages(in.pages)
  ELSE BookPrice(in.price)

BookFields(in) == BookTitle(in.title) \o BookPages(in.pages) \o BookPrice(in.price)

Book(in) ==
  IF BookFields(in) # <<>> THEN Rejected(BookFields(in), <<"fields">>)
  ELSE Accepted([title |-> in.title.v, pages |-> in.pages.v, price |-> in.price.v],
                <<"fields">>)

(***************************************************************************)
(* Transaction: the field validator amount_check on amount, the after-hook *)
(* validate_sender_balance on the constructed instance.                    *)
(***************************************************************************)
amount_check(v) ==
  IF v <= 0 THEN [ok |-> FALSE, v |-> v, msg |-> "Amount must be > 0"]
  ELSE [ok |-> TRUE, v |-> v, msg |-> ""]

validate_sender_balance(self) ==
  IF (self.sender_balance - self.amount) < 0
  THEN [ok |-> FALSE, v |-> self, msg |-> "Insufficient funds"]
  ELSE [ok |-> TRUE, v |-> self, msg |-> ""]

TransactionAmount(val) ==
  IF Typed("amount", val, "num") # <<>> THEN Typed("amount", val, "num")
  ELSE IF amount_check(val.v).ok THEN <<>>
  ELSE <<Err(<<"amount">>, "HookRejected", amount_check(val.v).msg)>>

TransactionFields(in) ==
  Typed("sender_balance", in.sender_balance, "num")
    \o TransactionAmount(in.amount)
    \o Typed("receiver_balance", in.receiver_balance, "num")

\* The steps of the field stage: the field validator runs on a value of the
\* declared type only.
TransactionFieldSteps(in) ==
  IF in.amount.k = "num" THEN <<"fields", "amount_check">> ELSE <<"fields">>

TransactionAfterAlways(in) ==
  LET errs == TransactionFields(in)
      steps == TransactionFieldSteps(in) \o <<"validate_sender_balance">>
      numeric == in.sender_balance.k = "num" /\ in.amount.k = "num"
      self == [sender_balance |-> in.sender_balance.v, amount |-> in.amount.v,
               receiver_balance |-> in.receiver_balance.v]
      after == IF numeric THEN validate_sender_balance(self)
               ELSE [ok |-> TRUE, v |-> self, msg |-> ""]
      all == IF after.ok THEN errs ELSE errs \o <<Err(<<>>, "HookRejected", after.msg)>>
  IN IF all # <<>> THEN Rejected(all, steps) ELSE Accepted(after.v, steps)

Transaction(in) ==
  LET errs == TransactionFields(in)
      steps == TransactionFieldSteps(in)
      self == [sender_balance |-> in.sender_balance.v, amount |-> in.amount.v,
               receiver_balance |-> in.receiver_balance.v]
  IN IF errs # <<>> THEN Rejected(errs, steps)
     ELSE IF validate_sender_balance(self).ok
          THEN Accepted(validate_sender_balance(self).v, steps \o <<"validate_sender_balance">>)
          ELSE Rejected(<<Err(<<>>, "HookRejected", validate_sender_balance(self).msg)>>,
                        steps \o <<"validate_sender_balance">>)

(***************************************************************************)
(* Order and Item: every Item of items is validated as a nested schema,    *)
(* its errors located under items and the element's index; the after-hook  *)
(* check_total compares total with the sum of the item prices.             *)
(***************************************************************************)
Index(i) == <<"0", "1", "2", "3", "4", "5", "6", "7">>[i]

ItemFields(m) ==
  Typed("name", m.name, "str")
    \o (IF Typed("price", m.price, "num") # <<>> THEN Typed("price", m.price, "num")
        ELSE Violation("price", m.price.v > 0, "gt"))

Item(val) ==
  IF val.k # "map" THEN <<Err(<<>>, "TypeMismatch", "map")>> ELSE ItemFields(val.v)

OrderItems(val) ==
  IF Typed("items", val, "list") # <<>> THEN Typed("items", val, "list")
  ELSE Concat([i \in 1..Len(val.v) |-> Prefix("items", Prefix(Index(i), Item(val.v[i])))])

OrderFields(in) ==
  Typed("order_id", in.order_id, "num") \o OrderItems(in.items)
    \o Typed("total", in.total, "num")

check_total_strict(self) ==
  IF self.total <= Sum([i \in 1..Len(self.items) |-> self.items[i].price])
  THEN [ok |-> FALSE, v |-> self, msg |-> "Total is less than the sum of items prices"]
  ELSE [ok |-> TRUE, v |-> self, msg |-> ""]

check_total(self) ==
  IF self.total < Sum([i \in 1..Len(self.items) |-> self.items[i].price])
  THEN [ok |-> FALSE, v |-> self, msg |-> "Total is less than the sum of items prices"]
  ELSE [ok |-> TRUE, v |-> self, msg |-> ""]

Order(in) ==
  LET errs == OrderFields(in)
      self == [order_id |-> in.order_id.v,
               items |-> [i \in 1..Len(in.items.v) |->
                            [name |-> in.items.v[i].v.name.v, price |-> in.items.v[i].v.price.v]],
               total |-> in.total.v]
  IN IF errs # <<>> THEN Rejected(errs, <<"fields">>)
     ELSE IF check_total(self).ok
          THEN Accepted(check_total(self).v, <<"fields", "check_total">>)
          ELSE Rejected(<<Err(<<>>, "HookRejected", check_total(self).msg)>>,
                        <<"fields", "check_total">>)

(***************************************************************************)
(* Address and User: zip is declared with the pattern \d{6}, which the     *)
(* validator searches for in the value; the errors of the nested Address   *)
(* are located under address.  The syntax of an e-mail address is decided  *)
(* by the external EmailStr validator: a text holding "@" stands for an    *)
(* address it accepts.                                                     *)
(***************************************************************************)
IsDigit(c) == c \in {"0", "1", "2", "3", "4", "5", "6", "7", "8", "9"}

\* The pattern \d{6} without anchors: six consecutive digits anywhere.
ZipPattern(s) ==
  \E i \in 1..(Len(s) - 5) : \A j \in i..(i + 5) : IsDigit(s[j])

AddressFields(m) ==
  Typed("street", m.street, "str") \o Typed("city", m.city, "str")
    \o (IF Typed("zip", m.zip, "str") # <<>> THEN Typed("zip", m.zip, "str")
        ELSE Violation("zip", ZipPattern(m.zip.v), "pattern"))

EmailStr(val) ==
  IF Typed("email", val, "str") # <<>> THEN Typed("email", val, "str")
  ELSE IF \E i \in 1..Len(val.v) : val.v[i] = "@" THEN <<>>
  ELSE <<Err(<<"email">>, "ConstraintViolation", "email")>>

UserAddressFlat(val) ==
  IF Typed("address", val, "map") # <<>> THEN Typed("address", val, "map")
  ELSE AddressFields(val.v)

UserAddress(val) ==
  IF Typed("address", val, "map") # <<>> THEN Typed("address", val, "map")
  ELSE Prefix("address", AddressFields(val.v))

UserFields(in) ==
  Typed("name", in.name, "str") \o EmailStr(in.email) \o UserAddress(in.address)

User(in) ==
  IF UserFields(in) # <<>> THEN Rejected(UserFields(in), <<"fields">>)
  ELSE Accepted([name |-> in.name.v, email |-> in.email.v,
                 address |-> [street |-> in.address.v.street.v, city |-> in.address.v.city.v,
                              zip |-> in.address.v.zip.v]],
                <<"fields">>)

(***************************************************************************)
(* ShoppingList: items is a list of at least 2 strings, total_items an     *)
(* optional integer with default None; the after-hook set_total_items      *)
(* stores the length of items in total_items.                              *)
(***************************************************************************)
ListOfStr(name, val) ==
  IF Typed(name, val, "list") # <<>> THEN Typed(name, val, "list")
  ELSE Concat([i \in 1..Len(val.v) |->
                 IF val.v[i].k = "str" THEN <<>>
                 ELSE <<Err(<<name, Index(i)>>, "TypeMismatch", "str")>>])

ShoppingListItems(val) ==
  IF ListOfStr("items", val) # <<>> THEN ListOfStr("items", val)
  ELSE Violation("items", Len(val.v) >= 2, "min_length")

ShoppingListTotal(val) ==
  IF val.k \in {"absent", "none", "num"} THEN <<>>
  ELSE <<Err(<<"total_items">>, "TypeMismatch", "num")>>

ShoppingListFields(in) == ShoppingListItems(in.items) \o ShoppingListTotal(in.total_items)

set_total_items_keep(self) == self

set_total_items(self) == [self EXCEPT !.total_items = Num(Len(self.items))]

ShoppingList(in) ==
  LET errs == ShoppingListFields(in)
      self == [items |-> [i \in 1..Len(in.items.v) |-> in.items.v[i].v],
               total_items |-> IF in.total_items.k = "absent" THEN None ELSE in.total_items]
  IN IF errs # <<>> THEN Rejected(errs, <<"fields">>)
     ELSE Accepted(set_total_items(self), <<"fields", "set_total_items">>)

(***************************************************************************)
(* Product: the before-hook process rewrites the mapping it is given, in   *)
(* place: name stripped of whitespace, price converted with float().  A    *)
(* ValueError raised by the hook is a rejection of the input; any other    *)
(* exception (KeyError of a missing key, AttributeError of a name without  *)
(* strip, TypeError of float(None)) leaves the validation call as raised.  *)
(***************************************************************************)
RECURSIVE LStrip(_)
LStrip(s) == IF s # <<>> /\ Head(s) = " " THEN LStrip(Tail(s)) ELSE s

RECURSIVE RStrip(_)
RStrip(s) ==
  IF s # <<>> /\ s[Len(s)] = " " THEN RStrip(SubSeq(s, 1, Len(s) - 1)) ELSE s

Strip(s) == RStrip(LStrip(s))

DigitValue(c) ==
  CASE c = "0" -> 0 [] c = "1" -> 1 [] c = "2" -> 2 [] c = "3" -> 3 [] c = "4" -> 4
    [] c = "5" -> 5 [] c = "6" -> 6 [] c = "7" -> 7 [] c = "8" -> 8 [] c = "9" -> 9

RECURSIVE Decimal(_)
Decimal(s) ==
  IF s = <<>> THEN 0
  ELSE Decimal(SubSeq(s, 1, Len(s) - 1)) * 10 + DigitValue(s[Len(s)])

\* float(text): surrounding whitespace is ignored, the rest must be a number.
ParseFloat(s) ==
  IF Strip(s) # <<>> /\ \A i \in 1..Len(Strip(s)) : IsDigit(Strip(s)[i])
  THEN [ok |-> TRUE, v |-> Decimal(Strip(s))]
  ELSE [ok |-> FALSE, v |-> 0]

\* data["name"] = data["name"].strip()
processName(data) ==
  IF data.name.k = "absent" THEN [out |-> "escape", data |-> data, msg |-> "KeyError"]
  ELSE IF data.name.k # "str"
       THEN [out |-> "escape", data |-> data, msg |-> "AttributeError"]
       ELSE [out |-> "ok", data |-> [data EXCEPT !.name = Str(Strip(data.name.v))],
             msg |-> ""]

\* data["price"] = float(data["price"])
processPrice(data) ==
  CASE data.price.k = "absent" -> [out |-> "escape", data |-> data, msg |-> "KeyError"]
    [] data.price.k = "num" -> [out |-> "ok", data |-> data, msg |-> ""]
    [] data.price.k = "str" ->
         IF ParseFloat(data.price.v).ok
         THEN [out |-> "ok", data |-> [data EXCEPT !.price = Num(ParseFloat(data.price.v).v)],
               msg |-> ""]
         ELSE [out |-> "reject", data |-> data, msg |-> "could not convert string to float"]
    [] OTHER -> [out |-> "escape", data |-> data, msg |-> "TypeError"]

process(data) ==
  IF processName(data).out # "ok" THEN processName(data)
  ELSE processPrice(processName(data).data)

ProductFields(data) == Typed("name", data.name, "str") \o Typed("price", data.price, "num")

Escaped(steps) ==
  [outcome |-> "Escaped", report |-> <<>>, inst |-> NoInst, ran |-> steps]

ProductNoAbort(in) ==
  LET hook == process(in)
      errs == IF hook.out = "reject" THEN <<Err(<<>>, "HookRejected", hook.msg)>> ELSE <<>>
      all == errs \o ProductFields(hook.data)
  IN IF hook.out = "escape" THEN Escaped(<<"process">>)
     ELSE IF all # <<>> THEN Rejected(all, <<"process", "fields">>)
     ELSE Accepted([name |-> hook.data.name.v, price |-> hook.data.price.v],
                   <<"process", "fields">>)

Product(in) ==
  LET hook == process(in)
  IN IF hook.out = "escape" THEN Escaped(<<"process">>)
     ELSE IF hook.out = "reject"
          THEN Rejected(<<Err(<<>>, "HookRejected", hook.msg)>>, <<"process">>)
     ELSE IF ProductFields(hook.data) # <<>>
          THEN Rejected(ProductFields(hook.data), <<"process", "fields">>)
     ELSE Accepted([name |-> hook.data.name.v, price |-> hook.data.price.v],
                   <<"process", "fields">>)

(***************************************************************************)
(* Cart: items defaults to the product of the factory list, total to 0.0   *)
(* and must be >= 0.  heap holds the list objects by identity; an instance *)
(* refers to its list by the list's identity.                              *)
(***************************************************************************)
NewList(h, contents) == [id |-> Len(h) + 1, heap |-> Append(h, contents)]

CartDefaultShared(h) == [id |-> 1, heap |-> IF h = <<>> THEN <<<<>>>> ELSE h]

CartDefaultItems(h) == NewList(h, <<>>)

CartItems(val) == IF val.k = "absent" THEN <<>> ELSE ListOfStr("items", val)

CartTotal(val) ==
  IF val.k = "absent" THEN <<>>
  ELSE IF Typed("total", val, "num") # <<>> THEN Typed("total", val, "num")
  ELSE Violation("total", val.v >= 0, "ge")

CartFields(in) == CartItems(in.items) \o CartTotal(in.total)

Cart(in, h) ==
  LET errs == CartFields(in)
      list == IF in.items.k = "absent" THEN CartDefaultItems(h)
              ELSE NewList(h, [i \in 1..Len(in.items.v) |-> in.items.v[i].v])
      total == IF in.total.k = "absent" THEN 0 ELSE in.total.v
  IN IF errs # <<>>
     THEN [outcome |-> "Rejected", report |-> errs, inst |-> NoInst, ran |-> <<"fields">>,
           heap |-> h]
     ELSE [outcome |-> "Accepted", report |-> <<>>,
           inst |-> [items |-> list.id, total |-> total], ran |-> <<"fields">>,
           heap |-> list.heap]

(***************************************************************************)
(* Inputs.                                                                 *)
(***************************************************************************)
TitleVals == {Absent, Num(7)} \cup {Str(s) : s \in SeqsUpTo({"A"}, MaxTitleLen)}
PagesVals == {Absent, Str(<<"x">>), Num(-5), Num(0), Num(1), Num(23), Num(250)}
PriceVals == {Absent, None, Num(2), Num(9), Num(10), Num(100), Num(1000), Num(1001)}
BookInputs == [title : TitleVals, pages : PagesVals, price : PriceVals]

BalanceVals == {Absent, None, Num(-300), Num(0), Num(100), Num(500)}
AmountVals == {Absent, Str(<<"x">>), Num(-200), Num(0), Num(200), Num(500)}
TransactionInputs ==
  [sender_balance : BalanceVals, amount : AmountVals, receiver_balance : {Absent, Num(0)}]

ItemVals ==
  {Map(m) : m \in [name : {Absent, Str(<<"B">>)}, price : {Num(0), Num(50), Num(200)}]}
OrderInputs ==
  [order_id : {Absent, Num(102)},
   items : {Absent} \cup {List(l) : l \in SeqsUpTo(ItemVals, MaxItems)},
   total : {Absent, Num(100), Num(250), Num(300)}]

ZipVals == {Absent, Num(411001)} \cup {Str(s) : s \in SeqsUpTo({"4", "a"}, MaxZipLen)}
AddressVals ==
  {Absent}
    \cup {Map(m) : m \in [street : {Str(<<"M">>)}, city : {Absent, Str(<<"P">>)},
                          zip : ZipVals]}
UserInputs ==
  [name : {Absent, Str(<<"H">>)},
   email : {Absent, Str(<<"h">>), Str(<<"h", "@", "g">>)},
   address : AddressVals]

ShoppingListInputs ==
  [items : {Absent} \cup {List(l) : l \in SeqsUpTo({Str(<<"m">>), Num(1)}, MaxItems + 1)},
   total_items : {Absent, None, Num(0), Num(2), Num(7), Str(<<"x">>)}]

ProductInputs ==
  [name : {Absent, Num(5)} \cup {Str(s) : s \in SeqsUpTo({" ", "L"}, MaxNameLen)},
   price : {Absent, None, Num(499)}
             \cup {Str(s) : s \in SeqsUpTo({"4", "x", " "}, MaxPriceLen)}]

CartInputs ==
  [items : {Absent, List(<<Str(<<"e">>)>>), List(<<Num(1)>>)},
   total : {Absent, Num(-1), Num(5)}]

Inputs(name) ==
  CASE name = "Book" -> BookInputs
    [] name = "Transaction" -> TransactionInputs
    [] name = "Order" -> OrderInputs
    [] name = "User" -> UserInputs
    [] name = "ShoppingList" -> ShoppingListInputs
    [] name = "Product" -> ProductInputs
    [] name = "Cart" -> {Absent}

Schemas == {"Book", "Transaction", "Order", "User", "ShoppingList", "Product", "Cart"}

(***************************************************************************)
(* The state: the schema the script validates, the mapping the caller      *)
(* holds (held), and of the last validation call the input as it was when  *)
(* the call began (raw), the outcome, the report, the instance and the     *)
(* steps the call ran; the list objects (heap) and the Cart instances the  *)
(* caller holds (carts).                                                   *)
(***************************************************************************)
Init ==
  /\ schema \in Schemas
  /\ held \in Inputs(schema)
  /\ raw = Absent
  /\ outcome = "none"
  /\ report = <<>>
  /\ inst = NoInst
  /\ ran = <<>>
  /\ heap = <<>>
  /\ carts = <<>>

Finish(in, r) ==
  /\ raw' = in
  /\ outcome' = r.outcome
  /\ report' = r.report
  /\ inst' = r.inst
  /\ ran' = r.ran
  /\ UNCHANGED schema

ValidateBook ==
  /\ schema = "Book" /\ outcome = "none"
  /\ Finish(held, Book(held))
  /\ UNCHANGED <<held, heap, carts>>

ValidateTransaction ==
  /\ schema = "Transaction" /\ outcome = "none"
  /\ Finish(held, Transaction(held))
  /\ UNCHANGED <<held, heap, carts>>

ValidateOrder ==
  /\ schema = "Order" /\ outcome = "none"
  /\ Finish(held, Order(held))
  /\ UNCHANGED <<held, heap, carts>>

ValidateUser ==
  /\ schema = "User" /\ outcome = "none"
  /\ Finish(held, User(held))
  /\ UNCHANGED <<held, heap, carts>>

ValidateShoppingList ==
  /\ schema = "ShoppingList" /\ outcome = "none"
  /\ Finish(held, ShoppingList(held))
  /\ UNCHANGED <<held, heap, carts>>

\* Product(**held): the hook is given the keyword mapping of the call, a copy.
ConstructProduct ==
  /\ schema = "Product"
  /\ Finish(held, Product(held))
  /\ UNCHANGED <<held, heap, carts>>

\* Product.model_validate(held): the hook is given the caller's mapping itself.
ModelValidateProduct ==
  /\ schema = "Product"
  /\ Finish(held, Product(held))
  /\ held' = process(held).data
  /\ UNCHANGED <<heap, carts>>

ValidateCart ==
  /\ schema = "Cart"
  /\ Len(carts) < MaxCarts
  /\ \E in \in CartInputs :
       /\ Finish(in, Cart(in, heap))
       /\ held' = in
       /\ heap' = Cart(in, heap).heap
       /\ carts' = IF Cart(in, heap).outcome = "Accepted"
                   THEN Append(carts, Cart(in, heap).inst) ELSE carts

\* cart.items.append("p") by the holder of an accepted Cart.
AppendItem ==
  /\ schema = "Cart"
  /\ \E c \in 1..Len(carts) :
       /\ Len(heap[carts[c].items]) < MaxAppend
       /\ heap' = [heap EXCEPT ![carts[c].items] = Append(@, "p")]
  /\ UNCHANGED <<schema, raw, outcome, report, inst, ran, carts, held>>

Next ==
  \/ ValidateBook
  \/ ValidateTransaction
  \/ ValidateOrder
  \/ ValidateUser
  \/ ValidateShoppingList
  \/ ConstructProduct
  \/ ModelValidateProduct
  \/ ValidateCart
  \/ AppendItem

Spec == Init /\ [][Next]_vars

(***************************************************************************)
(* Properties.                                                             *)
(***************************************************************************)
Called(name) == schema = name /\ outcome # "none"

ErrorsAt(path) == {i \in 1..Len(report) : report[i].path = path}

ViolationsAt(path) ==
  {i \in ErrorsAt(path) : report[i].kind = "ConstraintViolation"}

Steps == {ran[i] : i \in 1..Len(ran)}

\* ---- C1 ----
NonPositiveAndInsufficient ==
  /\ Called("Transaction")
  /\ raw.sender_balance.k = "num" /\ raw.amount.k = "num"
  /\ raw.amount.v <= 0
  /\ raw.sender_balance.v - raw.amount.v < 0

\* C1: a Transaction input with amount <= 0 and sender_balance - amount < 0 is
\* Rejected, the after-hook validate_sender_balance is not run, the report
\* holds the field-level error on amount and no whole-model error (no error
\* without a path, none saying "Insufficient funds"), and it holds nothing
\* but the error on amount when the other fields are valid.
TransactionFieldErrorOnly ==
  NonPositiveAndInsufficient =>
    /\ outcome = "Rejected"
    /\ inst = NoInst
    /\ "validate_sender_balance" \notin Steps
    /\ \E i \in 1..Len(report) :
         report[i] = Err(<<"amount">>, "HookRejected", "Amount must be > 0")
    /\ \A i \in 1..Len(report) :
         report[i].path # <<>> /\ report[i].detail # "Insufficient funds"
    /\ raw.receiver_balance.k = "num" => Len(report) = 1

TransactionFieldErrorOnlyWitness ==
  /\ NonPositiveAndInsufficient
  /\ raw.receiver_balance.k = "num"
  /\ report = <<Err(<<"amount">>, "HookRejected", "Amount must be > 0")>>

\* ---- C2 ----
TitleViolated == raw.title.k = "str" /\ Len(raw.title.v) < 3
PagesViolated == raw.pages.k = "num" /\ ~(raw.pages.v > 0)
PriceViolated == raw.price.k = "num" /\ (raw.price.v < 10 \/ raw.price.v > 1000)

\* C2: a Book report holds exactly one ConstraintViolation for every field
\* whose constraint the input violates, at that field's path, and none for a
\* field whose constraint holds, whatever the other fields are; a price below
\* 10 is reported as a violation of the lower bound; an input satisfying the
\* three constraints is Accepted.
BookOneErrorPerViolation ==
  Called("Book") =>
    /\ Cardinality(ViolationsAt(<<"title">>)) = (IF TitleViolated THEN 1 ELSE 0)
    /\ Cardinality(ViolationsAt(<<"pages">>)) = (IF PagesViolated THEN 1 ELSE 0)
    /\ Cardinality(ViolationsAt(<<"price">>)) = (IF PriceViolated THEN 1 ELSE 0)
    /\ \A i \in 1..Len(report) :
         /\ Len(report[i].path) = 1
         /\ Cardinality(ErrorsAt(report[i].path)) = 1
    /\ (raw.price.k = "num" /\ raw.price.v < 10) =>
         report[CHOOSE i \in ErrorsAt(<<"price">>) : TRUE].detail = "ge"
    /\ (/\ raw.title.k = "str" /\ raw.pages.k = "num" /\ raw.price.k = "num"
        /\ ~TitleViolated /\ ~PagesViolated /\ ~PriceViolated)
         => outcome = "Accepted" /\ report = <<>>
    /\ outcome = "Accepted" <=> report = <<>>

BookOneErrorPerViolationWitness ==
  /\ Called("Book")
  /\ TitleViolated /\ PagesViolated /\ ~PriceViolated /\ raw.price.k = "num"
  /\ Len(report) = 2

\* ---- C3 ----
OrderFieldsValid ==
  /\ Called("Order")
  /\ raw.order_id.k = "num" /\ raw.total.k = "num" /\ raw.items.k = "list"
  /\ \A i \in 1..Len(raw.items.v) :
       /\ raw.items.v[i].v.name.k = "str"
       /\ raw.items.v[i].v.price.k = "num"
       /\ raw.items.v[i].v.price.v > 0

OrderItemPrices == Sum([i \in 1..Len(raw.items.v) |-> raw.items.v[i].v.price.v])

\* C3: when every field of an Order input is valid, a total below the sum of
\* the item prices is Rejected with exactly one error, a HookRejected without
\* a field path, and no instance; any other total is Accepted.
OrderTotalDecides ==
  OrderFieldsValid =>
    /\ raw.total.v < OrderItemPrices =>
         /\ outcome = "Rejected"
         /\ Len(report) = 1
         /\ report[1].path = <<>>
         /\ report[1].kind = "HookRejected"
         /\ inst = NoInst
    /\ raw.total.v >= OrderItemPrices =>
         /\ outcome = "Accepted"
         /\ report = <<>>
         /\ inst # NoInst

OrderTotalDecidesWitness ==
  /\ OrderFieldsValid
  /\ Len(raw.items.v) = 2
  /\ raw.items.v[1].v.price.v = 200 /\ raw.items.v[2].v.price.v = 50
  /\ raw.total.v = 100
  /\ outcome = "Rejected"

\* ---- C4 ----
\* C4: every Product validation call ends Accepted with an instance and an
\* empty report, or Rejected with a non-empty report and no instance.
ProductCallEndsInTerminalState ==
  Called("Product") =>
    \/ outcome = "Accepted" /\ inst # NoInst /\ report = <<>>
    \/ outcome = "Rejected" /\ inst = NoInst /\ report # <<>>

\* ---- C5 ----
ExactlySixDigits(s) == Len(s) = 6 /\ \A j \in 1..Len(s) : IsDigit(s[j])

\* C5: a zip text of an Address is accepted (no error at address.zip) if and
\* only if the whole text is exactly six digits, and its rejection is a
\* ConstraintViolation of the pattern.
ZipFullStringMatch ==
  (Called("User") /\ raw.address.k = "map" /\ raw.address.v.zip.k = "str") =>
    /\ ErrorsAt(<<"address", "zip">>) = {} <=> ExactlySixDigits(raw.address.v.zip.v)
    /\ \A i \in ErrorsAt(<<"address", "zip">>) :
         report[i].kind = "ConstraintViolation" /\ report[i].detail = "pattern"

\* ---- C6 ----
\* C6: for a User input with an address mapping, a zip text too short to hold
\* six digits is reported at the path address.zip and a missing city at
\* address.city, never at the flat paths zip or city; every error is located
\* at a field of User or under address; and a missing name and a rejected
\* email are reported at their own paths in the same report.
UserNestedPath ==
  Called("User") =>
    /\ (/\ raw.address.k = "map" /\ raw.address.v.zip.k = "str"
        /\ Len(raw.address.v.zip.v) < 6)
         => \E i \in ErrorsAt(<<"address", "zip">>) : report[i].kind = "ConstraintViolation"
    /\ (raw.address.k = "map" /\ raw.address.v.city.k = "absent")
         => \E i \in ErrorsAt(<<"address", "city">>) : report[i].kind = "MissingRequired"
    /\ ErrorsAt(<<"zip">>) = {} /\ ErrorsAt(<<"city">>) = {}
    /\ \A i \in 1..Len(report) :
         \/ report[i].path \in {<<"name">>, <<"email">>, <<"address">>}
         \/ Len(report[i].path) = 2 /\ report[i].path[1] = "address"
    /\ raw.name.k = "absent" => ErrorsAt(<<"name">>) # {}
    /\ raw.email = Str(<<"h">>) => ErrorsAt(<<"email">>) # {}

UserNestedPathWitness ==
  /\ Called("User")
  /\ raw.address.k = "map" /\ raw.address.v.zip = Str(<<"4", "a">>)
  /\ raw.address.v.city.k = "absent"
  /\ raw.name.k = "absent"
  /\ ErrorsAt(<<"address", "zip">>) # {}
  /\ ErrorsAt(<<"address", "city">>) # {}
  /\ ErrorsAt(<<"name">>) # {}

\* ---- C7 ----
ListOf(c) == heap[c.items]

CartIsolationStep ==
  schema = "Cart" =>
    /\ \A i, j \in 1..Len(carts') : i # j => carts'[i].items # carts'[j].items
    /\ \A i, j \in 1..Len(carts) :
         (i # j /\ heap'[carts[i].items] # heap[carts[i].items])
           => heap'[carts[j].items] = heap[carts[j].items]
    /\ Len(carts') > Len(carts) =>
         /\ \A i \in 1..Len(carts) :
              carts'[i] = carts[i] /\ heap'[carts[i].items] = heap[carts[i].items]
         /\ raw'.items.k = "absent" =>
              /\ heap'[carts'[Len(carts')].items] = <<>>
              /\ carts'[Len(carts')].items \notin DOMAIN heap

\* C7: every accepted Cart whose input omits items gets a new empty list, one
\* no earlier Cart refers to; no two Carts refer to the same list; a step
\* that changes the items of one Cart changes the items of no other Cart.
CartDefaultIsolation == [][CartIsolationStep]_vars

CartDefaultIsolationWitness ==
  /\ schema = "Cart"
  /\ Len(carts) = 2
  /\ ListOf(carts[1]) = <<"p", "p">>
  /\ ListOf(carts[2]) = <<>>

\* ---- C8 ----
\* C8: an accepted Product has run process and then the fields, its name is
\* the supplied name without leading or trailing whitespace and its price the
\* numeric value of the supplied price text; when the supplied price text is
\* not a number (it holds an x) the call is Rejected, the fields are not
\* processed and the report holds the hook's rejection only.
ProductBeforeHookFirst ==
  Called("Product") =>
    /\ outcome = "Accepted" =>
         /\ ran = <<"process", "fields">>
         /\ raw.name.k = "str"
         /\ inst.name = <<>> \/ (inst.name[1] # " " /\ inst.name[Len(inst.name)] # " ")
         /\ \E i, j \in 0..Len(raw.name.v) :
              /\ inst.name = SubSeq(raw.name.v, i + 1, j)
              /\ \A n \in (1..i) \cup ((j + 1)..Len(raw.name.v)) : raw.name.v[n] = " "
         /\ raw.price.k = "str" =>
              ParseFloat(raw.price.v).ok /\ inst.price = ParseFloat(raw.price.v).v
         /\ raw.price.k = "num" => inst.price = raw.price.v
    /\ (/\ raw.name.k = "str" /\ raw.price.k = "str"
        /\ \E i \in 1..Len(raw.price.v) : raw.price.v[i] = "x")
         => /\ outcome = "Rejected"
            /\ "fields" \notin Steps
            /\ Len(report) = 1
            /\ report[1].path = <<>>
            /\ report[1].kind = "HookRejected"

ProductBeforeHookFirstWitness ==
  /\ Called("Product")
  /\ raw.name = Str(<<" ", "L", " ">>)
  /\ raw.price = Str(<<"4", "4">>)
  /\ outcome = "Accepted"
  /\ inst = [name |-> <<"L">>, price |-> 44]

\* ---- C9 ----
\* C9: every accepted ShoppingList has total_items equal to the length of its
\* items, whatever total_items the input supplied, and at least two items;
\* set_total_items runs only on an input whose items is a list of at least
\* two; a list of two or more strings with an absent, None or integer
\* total_items is Accepted.
ShoppingListTotalItems ==
  Called("ShoppingList") =>
    /\ outcome = "Accepted" =>
         /\ inst.total_items = Num(Len(inst.items))
         /\ Len(inst.items) >= 2
         /\ Len(inst.items) = Len(raw.items.v)
    /\ "set_total_items" \in Steps => raw.items.k = "list" /\ Len(raw.items.v) >= 2
    /\ (raw.items.k = "list" /\ Len(raw.items.v) < 2)
         => outcome = "Rejected" /\ inst = NoInst
    /\ (/\ raw.items.k = "list" /\ Len(raw.items.v) >= 2
        /\ \A i \in 1..Len(raw.items.v) : raw.items.v[i].k = "str"
        /\ raw.total_items.k \in {"absent", "none", "num"})
         => outcome = "Accepted"

ShoppingListTotalItemsWitness ==
  /\ Called("ShoppingList")
  /\ raw.total_items = Num(7)
  /\ outcome = "Accepted"
  /\ inst.total_items = Num(2)

\* ---- C10 ----
\* C10: a Product validation call leaves the mapping the caller passed as it
\* was when the call began.
ProductInputUnchanged == Called("Product") => held = raw

====
